---- MODULE Spec2Model ----
(***************************************************************************)
(* A model of ex1/health.ipynb: the notebook's code cells, run from a      *)
(* fresh kernel top to bottom.  The kernel's global names are the state;   *)
(* every code cell is one action, except the last one, whose call of       *)
(* trainer.train() is unrolled into the trainer's steps (optimizer step,   *)
(* end of epoch, evaluation).  The library calls are modelled by what they *)
(* do with the arguments the notebook passes.                               *)
(***************************************************************************)
EXTENDS Integers, Sequences, FiniteSets, TLC

VARIABLES
    pc,         \* the next cell to run ("error": a cell raised, the run stopped)
    bound,      \* the global names the kernel has bound
    hw,         \* the machine: which torch backends are available
    csv,        \* the rows of health.csv
    dat,        \* the value of the global name dat
    tokenizer,  \* the value of the global name tokenizer
    device,     \* the value of the global name device
    model,      \* the value of the global name model
    moved,      \* the devices the inputs of extract_features were moved to
    passed,     \* the keyword names extract_features passed to the model
    embeds,     \* the value of the global name embeds
    regr,       \* the value of the global name regr
    split,      \* X_train, X_test, y_train, y_test
    trainer,    \* the value of the global name trainer, with its TrainerState
    out         \* what the last cell displayed

vars == <<pc, bound, hw, csv, dat, tokenizer, device, model, moved, passed,
          embeds, regr, split, trainer, out>>

-----------------------------------------------------------------------------
(* Bounds of the model *)

\* health.csv has at most this many rows
MaxRows == 12
\* short texts have 0..MaxShortLen word pieces
MaxShortLen == 2
\* long texts have within Margin word pieces of the longest text that fits
Margin == 2
\* the texts of the file start at one of 0..MaxOff places of the text cycle
MaxOff == 0
\* the seeded shuffles are rotations by 0..MaxShift, each also reversed
MaxShift == 0

-----------------------------------------------------------------------------
(* Constants of the program *)

\* tokenizer.model_max_length of distilbert-base-uncased
model_max_length == 512
\* the width of distilbert-base-uncased's hidden states
hidden_size == 768
\* the ids of [PAD], [CLS] and [SEP]
PAD == 0
CLS == 101
SEP == 102
\* two word pieces of the vocabulary ("." and "broken")
WordA == 1012
WordB == 3714
\* batch_size of both dat.map calls and of the trainer
batch_size == 8
num_train_epochs == 10

Unbound == [type |-> "unbound"]

Min(a, b) == IF a < b THEN a ELSE b
CeilDiv(a, b) == (a + b - 1) \div b
Range(s) == {s[i] : i \in DOMAIN s}

-----------------------------------------------------------------------------
(* health.csv: rows of a text and a float label.  A text is given by its   *)
(* number of word pieces and by which piece it starts with.                 *)

TextLenAt(j) ==
    IF j % 2 = 0
    THEN (j \div 2) % (MaxShortLen + 1)
    ELSE (model_max_length - 2 - Margin) + ((j \div 2) % (2 * Margin + 1))

CsvFile(n, off) ==
    [i \in 1..n |-> [text   |-> [len |-> TextLenAt(i + off), first |-> i % 2],
                     labels |-> (i * 37) % 100]]

\* the word pieces of a text, without special tokens
WordPiece(text) ==
    [i \in 1..text.len |-> IF (i + text.first) % 2 = 0 THEN WordA ELSE WordB]

-----------------------------------------------------------------------------
(* The tokenizer *)

Pad(n, v) == [i \in 1..n |-> v]

\* tokenizer(text, padding=..., truncation=...) for one text: the word
\* pieces, cut to leave room for [CLS] and [SEP] when truncating, between
\* the two special tokens, padded on the right when padding to max_length
EncodeLeftPad(text, padding, truncation, max_length) ==
    LET pieces == WordPiece(text)
        kept   == IF truncation
                  THEN SubSeq(pieces, 1, Min(Len(pieces), max_length - 2))
                  ELSE pieces
        ids    == <<CLS>> \o kept \o <<SEP>>
        npad   == IF padding = "max_length" /\ Len(ids) < max_length
                  THEN max_length - Len(ids) ELSE 0
    IN  [input_ids      |-> Pad(npad, PAD) \o ids,
         attention_mask |-> Pad(npad, 0) \o Pad(Len(ids), 1)]

EncodeCutTail(text, padding, truncation, max_length) ==
    LET pieces == WordPiece(text)
        whole  == <<CLS>> \o pieces \o <<SEP>>
        ids    == IF truncation
                  THEN SubSeq(whole, 1, Min(Len(whole), max_length))
                  ELSE whole
        npad   == IF padding = "max_length" /\ Len(ids) < max_length
                  THEN max_length - Len(ids) ELSE 0
    IN  [input_ids      |-> ids \o Pad(npad, PAD),
         attention_mask |-> Pad(Len(ids), 1) \o Pad(npad, 0)]

Encode(text, padding, truncation, max_length) ==
    LET pieces == WordPiece(text)
        kept   == IF truncation
                  THEN SubSeq(pieces, 1, Min(Len(pieces), max_length - 2))
                  ELSE pieces
        ids    == <<CLS>> \o kept \o <<SEP>>
        npad   == IF padding = "max_length" /\ Len(ids) < max_length
                  THEN max_length - Len(ids) ELSE 0
    IN  [input_ids      |-> ids \o Pad(npad, PAD),
         attention_mask |-> Pad(Len(ids), 1) \o Pad(npad, 0)]

\* tokenizer(texts, ...) for a batch: a dictionary of two lists
TokenizerCall(tok, texts, padding, truncation) ==
    LET enc == [i \in 1..Len(texts) |->
                   Encode(texts[i], padding, truncation, tok.model_max_length)]
    IN  [input_ids      |-> [i \in 1..Len(texts) |-> enc[i].input_ids],
         attention_mask |-> [i \in 1..Len(texts) |-> enc[i].attention_mask]]

\* the lambda reads the global name tokenizer when it is called
batch_tokenize_unpadded(batch) ==
    TokenizerCall(tokenizer, batch.text, "do_not_pad", TRUE)

batch_tokenize(batch) ==
    TokenizerCall(tokenizer, batch.text, "max_length", TRUE)

TokenName(id) ==
    CASE id = PAD -> "[PAD]"
      [] id = CLS -> "[CLS]"
      [] id = SEP -> "[SEP]"
      [] id = WordA -> "."
      [] OTHER -> "broken"

convert_ids_to_tokens(ids) == [i \in 1..Len(ids) |-> TokenName(ids[i])]

-----------------------------------------------------------------------------
(* datasets.Dataset: columns of equal length under their feature names,    *)
(* the output format (the columns __getitem__ returns: all of them until   *)
(* set_format names some), and for each row the row of the file it is.     *)

NumRows(ds) == Len(ds.cols[ds.features[1]])

FromPandas(df) ==
    [type     |-> "Dataset",
     features |-> <<"text", "labels">>,
     cols     |-> [text   |-> [i \in 1..Len(df.rows) |-> df.rows[i].text],
                   labels |-> [i \in 1..Len(df.rows) |-> df.rows[i].labels]],
     format   |-> [type |-> "python", all |-> TRUE, columns |-> {}],
     indices  |-> [i \in 1..Len(df.rows) |-> i]]

\* the columns __getitem__ and map's batches hold
FormatColumns(ds) ==
    IF ds.format.all
    THEN Range(ds.features)
    ELSE ds.format.columns

\* dat[i], with python's index i (from 0)
GetItem(ds, i) == [k \in FormatColumns(ds) |-> ds.cols[k][i + 1]]

\* dat[lo:hi] as map hands it to a batched function: rows lo..hi (from 1)
Batch(ds, lo, hi) == [k \in FormatColumns(ds) |-> SubSeq(ds.cols[k], lo, hi)]

NumBatches(ds, size) == CeilDiv(NumRows(ds), size)
BatchLo(b, size) == (b - 1) * size + 1
BatchHi(ds, b, size) == Min(b * size, NumRows(ds))

\* s with the elements of t appended that s does not hold
AppendNew(s, t) ==
    s \o SelectSeq(t, LAMBDA k : k \notin Range(s))

SetFormatAllColumns(ds, type, columns) ==
    [ds EXCEPT !.format = [type |-> type, all |-> TRUE, columns |-> {}]]

\* dat.set_format(type, columns=columns), in place: output_all_columns is
\* left False, so __getitem__ returns the named columns and no other
SetFormat(ds, type, columns) ==
    [ds EXCEPT !.format = [type |-> type, all |-> FALSE, columns |-> columns]]


RECURSIVE Concat(_, _)
\* the first b sequences of ss, concatenated
Concat(ss, b) == IF b = 0 THEN <<>> ELSE Concat(ss, b - 1) \o ss[b]

\* the b-th batch dat.map(fn, batched=True, batch_size=size) hands to fn
MapBatch(ds, b, size) == Batch(ds, BatchLo(b, size), BatchHi(ds, b, size))

\* map writes the columns a batch returns beside the batch's other columns:
\* each must have the batch's number of rows
MapFits(ds, res, names, size) ==
    \A b \in DOMAIN res : \A i \in DOMAIN names :
        Len(res[b][names[i]]) = BatchHi(ds, b, size) - BatchLo(b, size) + 1

\* the dataset dat.map returns: the columns the function returned, under the
\* names it returned them by, added to the features; a dataset whose format
\* names columns formats the new columns too
MapDataset(ds, res, names) ==
    [ds EXCEPT
        !.features = AppendNew(@, names),
        !.cols     = [k \in Range(names) |->
                         Concat([b \in DOMAIN res |-> res[b][k]], Len(res))] @@ @,
        !.format   = IF @.all THEN @
                     ELSE [@ EXCEPT !.columns = @ \cup Range(names)]]

-----------------------------------------------------------------------------
(* The run of the notebook *)

CellsModelFirst ==
    <<"setup", "imports", "read_csv", "from_pandas", "show_sample", "model_ckpt",
      "tokenizer", "tokenize", "show_tokens", "import_torch", "set_format",
      "model", "device", "extract", "import_sklearn", "embeds", "regr",
      "split", "fit_score", "import_trainer", "dat_split", "model_ft",
      "train">>

\* the code cells in the notebook's order
Cells ==
    <<"setup", "imports", "read_csv", "from_pandas", "show_sample", "model_ckpt",
      "tokenizer", "tokenize", "show_tokens", "import_torch", "set_format",
      "device", "model", "extract", "import_sklearn", "embeds", "regr",
      "split", "fit_score", "import_trainer", "dat_split", "model_ft",
      "train">>

CellNo(c) == CHOOSE i \in DOMAIN Cells : Cells[i] = c

\* Run All: after a cell, the next one
NextCell(c) == Cells[CellNo(c) + 1]

\* the global names a cell reads and does not bind itself before reading
\* them (a function's body reads them when the cell calls the function)
Reads(c) ==
    CASE c = "read_csv"     -> {"pd"}
      [] c = "from_pandas"  -> {"Dataset", "dat"}
      [] c = "show_sample"  -> {"dat"}
      [] c = "tokenizer"    -> {"AutoTokenizer", "model_ckpt"}
      [] c = "tokenize"     -> {"tokenizer", "dat"}
      [] c = "show_tokens"  -> {"tokenizer", "dat"}
      [] c = "set_format"   -> {"dat"}
      [] c = "device"       -> {"torch"}
      [] c = "model"        -> {"AutoModel", "model_ckpt", "device", "tokenizer"}
      [] c = "extract"      -> {"device", "tokenizer", "model", "torch", "dat"}
      [] c = "embeds"       -> {"pd", "dat"}
      [] c = "regr"         -> {"RidgeCV"}
      [] c = "split"        -> {"train_test_split", "embeds", "dat"}
      [] c = "fit_score"    -> {"regr", "X_train", "X_test", "y_train", "y_test"}
      [] c = "dat_split"    -> {"dat"}
      [] c = "model_ft"     -> {"AutoModelForSequenceClassification",
                                "model_ckpt", "device"}
      [] c = "train"        -> {"model_ckpt", "TrainingArguments", "Trainer",
                                "evaluate", "model", "dat"}
      [] OTHER              -> {}

\* what a cell that reads dat takes dat to be
DatType(c) ==
    CASE c = "from_pandas" -> "DataFrame"
      [] c = "train"       -> "DatasetDict"
      [] OTHER             -> "Dataset"

\* the cell finds the names it reads, and dat of the type it takes it to be
CanRun(c) ==
    /\ Reads(c) \subseteq bound
    /\ "dat" \in Reads(c) => dat.type = DatType(c)

Init ==
    /\ pc = "setup"
    /\ bound = {}
    /\ hw \in [cuda : BOOLEAN, mps : BOOLEAN]
    /\ \E n \in 1..MaxRows, off \in 0..MaxOff : csv = CsvFile(n, off)
    /\ dat = Unbound
    /\ tokenizer = Unbound
    /\ device = Unbound
    /\ model = Unbound
    /\ moved = {}
    /\ passed = {}
    /\ embeds = Unbound
    /\ regr = Unbound
    /\ split = Unbound
    /\ trainer = Unbound
    /\ out = Unbound

\* import sys; the colab branch installs packages and changes directory
Setup ==
    /\ pc = "setup"
    /\ pc' = NextCell(pc)
    /\ bound' = bound \cup {"sys"}
    /\ out' = Unbound
    /\ UNCHANGED <<hw, csv, dat, tokenizer, device, model, moved, passed,
                   embeds, regr, split, trainer>>

Imports ==
    /\ pc = "imports"
    /\ pc' = NextCell(pc)
    /\ bound' = bound \cup {"pd", "Dataset", "AutoTokenizer"}
    /\ out' = Unbound
    /\ UNCHANGED <<hw, csv, dat, tokenizer, device, model, moved, passed,
                   embeds, regr, split, trainer>>

\* dat = pd.read_csv('health.csv')
ReadCsv ==
    /\ pc = "read_csv"
    /\ CanRun(pc)
    /\ pc' = NextCell(pc)
    /\ dat' = [type |-> "DataFrame", columns |-> <<"text", "labels">>, rows |-> csv]
    /\ bound' = bound \cup {"dat"}
    /\ out' = [shape |-> <<Len(csv), 2>>]
    /\ UNCHANGED <<hw, csv, tokenizer, device, model, moved, passed,
                   embeds, regr, split, trainer>>

\* dat = Dataset.from_pandas(dat)
FromPandasCell ==
    /\ pc = "from_pandas"
    /\ CanRun(pc)
    /\ pc' = NextCell(pc)
    /\ dat' = FromPandas(dat)
    /\ out' = [features |-> FromPandas(dat).features, num_rows |-> Len(dat.rows)]
    /\ UNCHANGED <<bound, hw, csv, tokenizer, device, model, moved, passed,
                   embeds, regr, split, trainer>>

\* dat[0]
ShowSample ==
    /\ pc = "show_sample"
    /\ CanRun(pc)
    /\ pc' = NextCell(pc)
    /\ out' = GetItem(dat, 0)
    /\ UNCHANGED <<bound, hw, csv, dat, tokenizer, device, model, moved, passed,
                   embeds, regr, split, trainer>>

\* model_ckpt = 'distilbert-base-uncased'
ModelCkpt ==
    /\ pc = "model_ckpt"
    /\ pc' = NextCell(pc)
    /\ bound' = bound \cup {"model_ckpt"}
    /\ out' = Unbound
    /\ UNCHANGED <<hw, csv, dat, tokenizer, device, model, moved, passed,
                   embeds, regr, split, trainer>>

\* tokenizer = AutoTokenizer.from_pretrained(model_ckpt)
TokenizerCell ==
    /\ pc = "tokenizer"
    /\ CanRun(pc)
    /\ pc' = NextCell(pc)
    /\ tokenizer' = [type              |-> "DistilBertTokenizerFast",
                     model_max_length  |-> model_max_length,
                     model_input_names |-> {"input_ids", "attention_mask"}]
    /\ bound' = bound \cup {"tokenizer"}
    /\ out' = [max_context_length |-> model_max_length]
    /\ UNCHANGED <<hw, csv, dat, device, model, moved, passed,
                   embeds, regr, split, trainer>>

\* dat = dat.map(batch_tokenize, batched=True, batch_size=8); dat[0]
Tokenize ==
    /\ pc = "tokenize"
    /\ CanRun(pc)
    /\ LET res   == [b \in 1..NumBatches(dat, batch_size) |->
                        batch_tokenize(MapBatch(dat, b, batch_size))]
           names == <<"input_ids", "attention_mask">>
       IN  IF MapFits(dat, res, names, batch_size)
           THEN /\ dat' = MapDataset(dat, res, names)
                /\ out' = GetItem(dat', 0)
                /\ pc' = NextCell(pc)
           ELSE /\ pc' = "error"
                /\ UNCHANGED <<dat, out>>
    /\ bound' = bound \cup {"batch_tokenize"}
    /\ UNCHANGED <<hw, csv, tokenizer, device, model, moved, passed,
                   embeds, regr, split, trainer>>

\* tokenizer.convert_ids_to_tokens(dat[0]['input_ids'])[:100]
ShowTokens ==
    /\ pc = "show_tokens"
    /\ CanRun(pc)
    /\ "input_ids" \in FormatColumns(dat)
    /\ pc' = NextCell(pc)
    /\ out' = LET toks == convert_ids_to_tokens(GetItem(dat, 0).input_ids)
              IN  SubSeq(toks, 1, Min(100, Len(toks)))
    /\ UNCHANGED <<bound, hw, csv, dat, tokenizer, device, model, moved, passed,
                   embeds, regr, split, trainer>>

\* import torch; torch.manual_seed(42); from transformers import AutoModel
ImportTorch ==
    /\ pc = "import_torch"
    /\ pc' = NextCell(pc)
    /\ bound' = bound \cup {"torch", "AutoModel"}
    /\ out' = Unbound
    /\ UNCHANGED <<hw, csv, dat, tokenizer, device, model, moved, passed,
                   embeds, regr, split, trainer>>

\* dat.set_format('torch', columns=['input_ids', 'attention_mask', 'labels'])
SetFormatCell ==
    /\ pc = "set_format"
    /\ CanRun(pc)
    /\ {"input_ids", "attention_mask", "labels"} \subseteq Range(dat.features)
    /\ pc' = NextCell(pc)
    /\ dat' = SetFormat(dat, "torch", {"input_ids", "attention_mask", "labels"})
    /\ out' = [features |-> dat.features, num_rows |-> NumRows(dat)]
    /\ UNCHANGED <<bound, hw, csv, tokenizer, device, model, moved, passed,
                   embeds, regr, split, trainer>>

\* the if / elif / else over torch.cuda and torch.backends.mps
SelectDeviceMpsFirst(h) ==
    IF h.mps THEN "mps" ELSE IF h.cuda THEN "cuda" ELSE "cpu"

SelectDevice(h) ==
    IF h.cuda THEN "cuda" ELSE IF h.mps THEN "mps" ELSE "cpu"

DeviceCell ==
    /\ pc = "device"
    /\ CanRun(pc)
    /\ pc' = NextCell(pc)
    /\ device' = [type |-> SelectDevice(hw)]
    /\ bound' = bound \cup {"device"}
    /\ out' = device'
    /\ UNCHANGED <<hw, csv, dat, tokenizer, model, moved, passed,
                   embeds, regr, split, trainer>>

\* how many of an attention mask's positions are 1
RealLen(mask) == Cardinality({i \in DOMAIN mask : mask[i] = 1})

\* The transformer is a function of a row's ids and mask and of the
\* weights; a hidden state is named by what it is a function of.
Digest(ids, mask) ==
    [real |-> RealLen(mask), second |-> ids[2], len |-> Len(ids)]

ForwardAnyModel(m, inputs) ==
    LET B == Len(inputs.input_ids.data)
        enc == [b \in 1..B |->
                   Digest(inputs.input_ids.data[b],
                          IF "attention_mask" \in DOMAIN inputs
                          THEN inputs.attention_mask.data[b]
                          ELSE Pad(Len(inputs.input_ids.data[b]), 1))]
    IN  [last_hidden_state |->
            [batch |-> B, seq |-> Len(inputs.input_ids.data[1]),
             dim |-> hidden_size, weights |-> m.weights, rows |-> enc]]

\* model(**inputs): the base model returns the last hidden states, one
\* vector of hidden_size per row and position; the model with a head
\* returns logits and no last_hidden_state
Forward(m, inputs) ==
    LET B == Len(inputs.input_ids.data)
        enc == [b \in 1..B |->
                   Digest(inputs.input_ids.data[b],
                          IF "attention_mask" \in DOMAIN inputs
                          THEN inputs.attention_mask.data[b]
                          ELSE Pad(Len(inputs.input_ids.data[b]), 1))]
    IN  IF m.type = "DistilBertModel"
        THEN [last_hidden_state |->
                 [batch |-> B, seq |-> Len(inputs.input_ids.data[1]),
                  dim |-> hidden_size, weights |-> m.weights, rows |-> enc]]
        ELSE [logits |-> [batch |-> B, dim |-> m.num_labels,
                          weights |-> m.weights, rows |-> enc]]

\* t[:, p]: of every row of the batch, the vector at position p
SliceAt(t, p) ==
    [b \in 1..t.batch |->
        [dim |-> t.dim, pos |-> p, weights |-> t.weights, of |-> t.rows[b]]]

extract_inputs_unfiltered(batch) ==
    [k \in DOMAIN batch |-> [data |-> batch[k], device |-> device.type]]

\* inputs = {k: v.to(device) for k, v in batch.items()
\*           if k in tokenizer.model_input_names}
extract_inputs(batch) ==
    [k \in (DOMAIN batch) \cap tokenizer.model_input_names |->
        [data |-> batch[k], device |-> device.type]]

extract_features_second(batch) ==
    [hidden_state |->
        SliceAt(Forward(model, extract_inputs(batch)).last_hidden_state, 1)]

\* reads the global names device, tokenizer and model when it is called
extract_features(batch) ==
    [hidden_state |->
        SliceAt(Forward(model, extract_inputs(batch)).last_hidden_state, 0)]

\* with torch.no_grad(): the forward passes of nb batches build no graph,
\* and nothing steps an optimizer: the model is after them what it was
AfterInferenceTuned(m, nb) == [m EXCEPT !.weights = @ + nb]

AfterInference(m, nb) == m

\* whether the model is called on the batches of ds: the batch's values
\* are tensors (v.to), the ids are passed and sit on the model's device
InputsReachModel(ds) ==
    /\ ds.format.type = "torch"
    /\ "input_ids" \in FormatColumns(ds) \cap tokenizer.model_input_names
    /\ \A i \in 1..NumRows(ds) :
           Len(ds.cols.input_ids[i]) = Len(ds.cols.input_ids[1])
    /\ model.device = device.type

\* model(**inputs).last_hidden_state: an AttributeError when the output of
\* the model that the name model holds at the call has no such attribute
HasLastHiddenState(ds) ==
    "last_hidden_state" \in
        DOMAIN Forward(model, extract_inputs(MapBatch(ds, 1, batch_size)))

\* whether extract_features returns for every batch of ds
ExtractRuns(ds) == InputsReachModel(ds) /\ HasLastHiddenState(ds)

\* ds.map(extract_features, batched=True, batch_size=8)
ExtractMap(ds) ==
    MapDataset(ds,
               [b \in 1..NumBatches(ds, batch_size) |->
                   extract_features(MapBatch(ds, b, batch_size))],
               <<"hidden_state">>)

\* model = AutoModel.from_pretrained(model_ckpt).to(device)
ModelCell ==
    /\ pc = "model"
    /\ CanRun(pc)
    /\ pc' = NextCell(pc)
    /\ model' = [type |-> "DistilBertModel", device |-> device.type,
                 weights |-> 0, num_labels |-> 0]
    /\ bound' = bound \cup {"model"}
    /\ out' = [model_inputs |-> tokenizer.model_input_names]
    /\ UNCHANGED <<hw, csv, dat, tokenizer, device, moved, passed,
                   embeds, regr, split, trainer>>

\* dat = dat.map(extract_features, batched=True, batch_size=8)
\* dat['hidden_state'].shape
Extract ==
    /\ pc = "extract"
    /\ CanRun(pc)
    /\ bound' = bound \cup {"extract_features"}
    /\ IF ExtractRuns(dat)
       THEN LET res   == [b \in 1..NumBatches(dat, batch_size) |->
                             extract_features(MapBatch(dat, b, batch_size))]
                names == <<"hidden_state">>
                nb    == NumBatches(dat, batch_size)
            IN  /\ model' = AfterInference(model, nb)
                /\ moved' = moved \cup {device.type}
                /\ passed' = passed \cup UNION {
                       DOMAIN extract_inputs(MapBatch(dat, b, batch_size)) :
                           b \in 1..nb}
                /\ IF MapFits(dat, res, names, batch_size)
                   THEN /\ dat' = MapDataset(dat, res, names)
                        /\ out' = [shape |-> <<Len(dat'.cols.hidden_state),
                                               dat'.cols.hidden_state[1].dim>>]
                        /\ pc' = NextCell(pc)
                   ELSE /\ pc' = "error"
                        /\ UNCHANGED <<dat, out>>
       ELSE /\ pc' = "error"
            /\ UNCHANGED <<dat, out, model, moved, passed>>
    /\ UNCHANGED <<hw, csv, tokenizer, device, embeds, regr, split, trainer>>
\* The cell of extract_features executed once more, by hand, while the
\* kernel is idle: the names are looked up as they are bound then. On a
\* DatasetDict map runs over the train split, then the test split, and
\* dat['hidden_state'] finds no split of that name. An exception ends the
\* cell where it is raised: the assignment to dat is not reached.
ReExtract ==
    /\ pc \in Range(Cells) \cup {"done", "error"}
    /\ "extract_features" \in bound
    /\ Reads("extract") \subseteq bound
    /\ dat.type \in {"Dataset", "DatasetDict"}
    /\ LET first == IF dat.type = "Dataset" THEN dat ELSE dat.train
           nb    == NumBatches(first, batch_size)
       IN  IF ~InputsReachModel(first)
           THEN /\ out' = [error |-> "Error", name |-> "inputs"]
                /\ UNCHANGED <<dat, model, moved, passed>>
           ELSE IF ~HasLastHiddenState(first)
           THEN /\ out' = [error |-> "AttributeError",
                           name  |-> "last_hidden_state"]
                /\ moved' = moved \cup {device.type}
                /\ passed' = passed \cup
                      DOMAIN extract_inputs(MapBatch(first, 1, batch_size))
                /\ model' = AfterInference(model, 1)
                /\ UNCHANGED dat
           ELSE /\ moved' = moved \cup {device.type}
                /\ passed' = passed \cup UNION {
                      DOMAIN extract_inputs(MapBatch(first, b, batch_size)) :
                          b \in 1..nb}
                /\ IF dat.type = "Dataset"
                   THEN /\ dat' = ExtractMap(dat)
                        /\ model' = AfterInference(model, nb)
                        /\ out' = [shape |-> <<Len(dat'.cols.hidden_state),
                                               dat'.cols.hidden_state[1].dim>>]
                   ELSE /\ dat' = [dat EXCEPT !.train = ExtractMap(@),
                                              !.test  = ExtractMap(@)]
                        /\ model' = AfterInference(model,
                                        nb + NumBatches(dat.test, batch_size))
                        /\ out' = [error |-> "KeyError", name |-> "hidden_state"]
    /\ UNCHANGED <<pc, bound, hw, csv, tokenizer, device, embeds, regr, split,
                   trainer>>


ImportSklearn ==
    /\ pc = "import_sklearn"
    /\ pc' = NextCell(pc)
    /\ bound' = bound \cup {"RidgeCV", "train_test_split"}
    /\ out' = Unbound
    /\ UNCHANGED <<hw, csv, dat, tokenizer, device, model, moved, passed,
                   embeds, regr, split, trainer>>

\* embeds = pd.DataFrame(dat['hidden_state'])
EmbedsCell ==
    /\ pc = "embeds"
    /\ CanRun(pc)
    /\ "hidden_state" \in Range(dat.features)
    /\ pc' = NextCell(pc)
    /\ embeds' = [type |-> "DataFrame", rows |-> dat.cols.hidden_state]
    /\ bound' = bound \cup {"embeds"}
    /\ out' = [shape |-> <<Len(embeds'.rows), embeds'.rows[1].dim>>]
    /\ UNCHANGED <<hw, csv, dat, tokenizer, device, model, moved, passed,
                   regr, split, trainer>>

\* regr = RidgeCV()
RegrCell ==
    /\ pc = "regr"
    /\ CanRun(pc)
    /\ pc' = NextCell(pc)
    /\ regr' = [type |-> "RidgeCV", fitted |-> FALSE, fit_rows |-> <<>>]
    /\ bound' = bound \cup {"regr"}
    /\ out' = regr'
    /\ UNCHANGED <<hw, csv, dat, tokenizer, device, model, moved, passed,
                   embeds, split, trainer>>

-----------------------------------------------------------------------------
(* The two seeded shuffles and splits *)

\* A seeded generator's permutation of 1..n is fixed by the seed; which one
\* it is the model leaves open among the rotations, read either way round.
Permutation(n, r, rev) ==
    [i \in 1..n |-> IF rev THEN n - ((i - 1 + r) % n)
                    ELSE ((i - 1 + r) % n) + 1]

Shuffles(n) ==
    {Permutation(n, r, rev) : r \in 0..Min(MaxShift, n - 1), rev \in BOOLEAN}

\* ceil(n * num / den): the number of test rows for test_size = num / den
TestCountFloor(n, num, den) == (n * num) \div den

TestCount(n, num, den) == CeilDiv(n * num, den)

\* the rows of the shuffled data that go to the test part come first, the
\* train part is what follows them
TestPart(perm, n_test) == SubSeq(perm, 1, n_test)
TrainPart(perm, n_test) == SubSeq(perm, n_test + 1, Len(perm))

Take(col, idx) == [i \in 1..Len(idx) |-> col[idx[i]]]

\* train_test_split(embeds, dat['labels'], random_state=42), test_size and
\* train_size left at their defaults: a quarter of the rows, rounded up, are
\* the test part
SklearnSplit(X, y, perm) ==
    LET n_test == TestCount(Len(X), 1, 4)
    IN  [type      |-> "split",
         train_idx |-> TrainPart(perm, n_test),
         test_idx  |-> TestPart(perm, n_test),
         X_train   |-> Take(X, TrainPart(perm, n_test)),
         X_test    |-> Take(X, TestPart(perm, n_test)),
         y_train   |-> Take(y, TrainPart(perm, n_test)),
         y_test    |-> Take(y, TestPart(perm, n_test))]

SplitCell ==
    /\ pc = "split"
    /\ CanRun(pc)
    /\ IF Len(embeds.rows) - TestCount(Len(embeds.rows), 1, 4) = 0
       THEN \* ValueError: the resulting train set will be empty
            /\ pc' = "error"
            /\ UNCHANGED <<split, out, bound>>
       ELSE \E perm \in Shuffles(Len(embeds.rows)) :
            /\ split' = SklearnSplit(embeds.rows, dat.cols.labels, perm)
            /\ out' = [train_size |-> Len(split'.X_train),
                       test_size  |-> Len(split'.X_test)]
            /\ bound' = bound \cup {"X_train", "X_test", "y_train", "y_test"}
            /\ pc' = NextCell(pc)
    /\ UNCHANGED <<hw, csv, dat, tokenizer, device, model, moved, passed,
                   embeds, regr, trainer>>

\* regr.fit(X_train, y_train)
FitRowsAll(sp) == sp.train_idx \o sp.test_idx

FitRows(sp) == sp.train_idx

\* regr.score(X_test, y_test)
ScoreRows(sp) == sp.test_idx

FitScore ==
    /\ pc = "fit_score"
    /\ CanRun(pc)
    /\ pc' = NextCell(pc)
    /\ regr' = [regr EXCEPT !.fitted = TRUE, !.fit_rows = FitRows(split)]
    /\ out' = [r2 |-> [fit_rows |-> regr'.fit_rows, score_rows |-> ScoreRows(split)]]
    /\ UNCHANGED <<bound, hw, csv, dat, tokenizer, device, model, moved, passed,
                   embeds, split, trainer>>

ImportTrainer ==
    /\ pc = "import_trainer"
    /\ pc' = NextCell(pc)
    /\ bound' = bound \cup {"AutoModelForSequenceClassification",
                            "TrainingArguments", "Trainer", "evaluate"}
    /\ out' = Unbound
    /\ UNCHANGED <<hw, csv, dat, tokenizer, device, model, moved, passed,
                   embeds, regr, split, trainer>>

\* ds.select(idx): the rows idx of ds, each still the row of the file it was
Select(ds, idx) ==
    [ds EXCEPT !.cols = [k \in DOMAIN ds.cols |-> Take(ds.cols[k], idx)],
               !.indices = Take(ds.indices, idx)]

\* dat.train_test_split(test_size=0.2, seed=42): a fifth of the rows, rounded
\* up, are the test part
DatasetSplitFloor(ds, perm) ==
    LET n_test == TestCountFloor(NumRows(ds), 1, 5)
    IN  [type  |-> "DatasetDict",
         train |-> Select(ds, TrainPart(perm, n_test)),
         test  |-> Select(ds, TestPart(perm, n_test))]

DatasetSplit(ds, perm) ==
    LET n_test == TestCount(NumRows(ds), 1, 5)
    IN  [type  |-> "DatasetDict",
         train |-> Select(ds, TrainPart(perm, n_test)),
         test  |-> Select(ds, TestPart(perm, n_test))]

DatSplit ==
    /\ pc = "dat_split"
    /\ CanRun(pc)
    /\ IF NumRows(dat) - TestCount(NumRows(dat), 1, 5) = 0
       THEN \* ValueError: the resulting train set will be empty
            /\ pc' = "error"
            /\ UNCHANGED <<dat, out>>
       ELSE \E perm \in Shuffles(NumRows(dat)) :
            /\ dat' = DatasetSplit(dat, perm)
            /\ out' = [train |-> [features |-> dat.features,
                                  num_rows |-> NumRows(dat'.train)],
                       test  |-> [features |-> dat.features,
                                  num_rows |-> NumRows(dat'.test)]]
            /\ pc' = NextCell(pc)
    /\ UNCHANGED <<bound, hw, csv, tokenizer, device, model, moved, passed,
                   embeds, regr, split, trainer>>

\* model = AutoModelForSequenceClassification
\*             .from_pretrained(model_ckpt, num_labels=1).to(device)
ModelFt ==
    /\ pc = "model_ft"
    /\ CanRun(pc)
    /\ pc' = NextCell(pc)
    /\ model' = [type |-> "DistilBertForSequenceClassification",
                 device |-> device.type, weights |-> 0, num_labels |-> 1]
    /\ bound' = bound \cup {"model"}
    /\ out' = model'
    /\ UNCHANGED <<hw, csv, dat, tokenizer, device, moved, passed,
                   embeds, regr, split, trainer>>

-----------------------------------------------------------------------------
(* The trainer *)

\* TrainingArguments(...): logging_steps = 1/batch_size is the float 0.125,
\* kept as the fraction it is; every argument left out has its default
TrainingArgsNoEval ==
    [per_device_train_batch_size |-> batch_size,
     per_device_eval_batch_size  |-> batch_size,
     logging_strategy            |-> "steps",
     logging_steps               |-> [num |-> 1, den |-> batch_size],
     evaluation_strategy         |-> "no",
     num_train_epochs            |-> num_train_epochs]

TrainingArgs ==
    [per_device_train_batch_size |-> batch_size,
     per_device_eval_batch_size  |-> batch_size,
     logging_strategy            |-> "steps",
     logging_steps               |-> [num |-> 1, den |-> batch_size],
     evaluation_strategy         |-> "epoch",
     num_train_epochs            |-> num_train_epochs]

\* the optimizer steps of one pass over the training data
StepsPerEpoch(args, n_train) == CeilDiv(n_train, args.per_device_train_batch_size)

MaxSteps(args, n_train) == args.num_train_epochs * StepsPerEpoch(args, n_train)

\* The trainer reads a logging_steps below 1 as a share of all the training
\* steps: it logs every ceil(max_steps * logging_steps) steps.
LoggingSteps(args, max_steps) ==
    IF args.logging_steps.num < args.logging_steps.den
    THEN CeilDiv(max_steps * args.logging_steps.num, args.logging_steps.den)
    ELSE args.logging_steps.num \div args.logging_steps.den

\* compute_metrics(eval_preds): the r_squared of the predictions against
\* the labels it is handed
compute_metrics(eval_preds) ==
    [r_squared |-> [predictions |-> eval_preds.predictions,
                    references  |-> eval_preds.label_ids]]

\* trainer = Trainer(model=model, args=training_args,
\*                   train_dataset=dat['train'], eval_dataset=dat['test'],
\*                   compute_metrics=compute_metrics)
NewTrainer(args, dd) ==
    [type          |-> "Trainer",
     args          |-> args,
     train_dataset |-> dd.train.indices,
     eval_dataset  |-> dd.test.indices,
     eval_labels   |-> dd.test.cols.labels]

\* the state trainer.train() starts from
TrainerState(tr) ==
    LET max_steps == MaxSteps(tr.args, Len(tr.train_dataset))
    IN  [epoch         |-> 0,      \* complete passes over the training data
         step_in_epoch |-> 0,      \* batches of the running pass already taken
         global_step   |-> 0,      \* optimizer steps taken
         max_steps     |-> max_steps,
         logging_steps |-> LoggingSteps(tr.args, max_steps),
         seen          |-> {},     \* rows of the file the running pass trained on
         trained       |-> {},     \* rows of the file any step trained on
         log_history   |-> <<>>,   \* the training-metrics logs
         evals         |-> <<>>,   \* the evaluations
         metric_calls  |-> 0]      \* calls of compute_metrics

\* the cell up to the first training step of trainer.train()
TrainCell ==
    /\ pc = "train"
    /\ CanRun(pc)
    /\ model.type = "DistilBertForSequenceClassification"
    /\ pc' = "train_step"
    /\ trainer' = LET tr == NewTrainer(TrainingArgs, dat)
                  IN  tr @@ [state |-> TrainerState(tr)]
    /\ bound' = bound \cup {"model_name", "batch_size", "training_args",
                            "compute_metrics", "trainer"}
    /\ out' = Unbound
    /\ UNCHANGED <<hw, csv, dat, tokenizer, device, model, moved, passed,
                   embeds, regr, split>>

\* one training step: the next batch of the pass, an optimizer step, and a
\* training-metrics log when the step count is a multiple of logging_steps.
\* The sampler's order of the rows within a pass is taken to be the
\* dataset's: every pass takes every row once in any order.
TrainStep ==
    /\ pc = "train_step"
    /\ LET st   == trainer.state
           size == trainer.args.per_device_train_batch_size
           spe  == StepsPerEpoch(trainer.args, Len(trainer.train_dataset))
           b    == st.step_in_epoch + 1
           rows == Range(SubSeq(trainer.train_dataset, BatchLo(b, size),
                                Min(b * size, Len(trainer.train_dataset))))
           step == st.global_step + 1
           log  == /\ trainer.args.logging_strategy = "steps"
                   /\ step % st.logging_steps = 0
       IN  /\ model' = [model EXCEPT !.weights = @ + 1]
           /\ trainer' = [trainer EXCEPT !.state =
                  [st EXCEPT
                      !.step_in_epoch = b,
                      !.global_step   = step,
                      !.seen          = @ \cup rows,
                      !.trained       = @ \cup rows,
                      !.log_history   =
                          IF log
                          THEN Append(@, [step |-> step, epoch |-> st.epoch,
                                          step_in_epoch |-> b])
                          ELSE @]]
           /\ pc' = IF b = spe THEN "epoch_end" ELSE "train_step"
    /\ UNCHANGED <<bound, hw, csv, dat, tokenizer, device, moved, passed,
                   embeds, regr, split, out>>

\* the end of a pass over the training data
EpochEnd ==
    /\ pc = "epoch_end"
    /\ trainer' = [trainer EXCEPT !.state.epoch = @ + 1,
                                  !.state.step_in_epoch = 0]
    /\ pc' = IF trainer.args.evaluation_strategy = "epoch" THEN "evaluate"
             ELSE IF trainer.state.epoch + 1 = trainer.args.num_train_epochs
                  THEN "done" ELSE "train_step"
    /\ UNCHANGED <<bound, hw, csv, dat, tokenizer, device, model, moved, passed,
                   embeds, regr, split, out>>

\* trainer.evaluate(): the predictions for every row of the evaluation
\* dataset, batch after batch, then one call of compute_metrics on them all
Evaluate ==
    /\ pc = "evaluate"
    /\ LET st    == trainer.state
           preds == [i \in 1..Len(trainer.eval_dataset) |->
                        [row |-> trainer.eval_dataset[i], weights |-> model.weights]]
           metrics == compute_metrics([predictions |-> preds,
                                       label_ids   |-> trainer.eval_labels])
       IN  /\ trainer' = [trainer EXCEPT !.state =
                  [st EXCEPT
                      !.seen = {},
                      !.metric_calls = @ + 1,
                      !.evals = Append(@,
                          [epoch       |-> st.epoch,
                           global_step |-> st.global_step,
                           passed_over |-> st.seen,
                           rows        |-> {preds[i].row : i \in DOMAIN preds},
                           metrics     |-> metrics])]]
           /\ pc' = IF st.epoch = trainer.args.num_train_epochs
                    THEN "done" ELSE "train_step"
    /\ UNCHANGED <<bound, hw, csv, dat, tokenizer, device, model, moved, passed,
                   embeds, regr, split, out>>

Next ==
    \/ Setup
    \/ Imports
    \/ ReadCsv
    \/ FromPandasCell
    \/ ShowSample
    \/ ModelCkpt
    \/ TokenizerCell
    \/ Tokenize
    \/ ShowTokens
    \/ ImportTorch
    \/ SetFormatCell
    \/ DeviceCell
    \/ ModelCell
    \/ Extract
    \/ ImportSklearn
    \/ EmbedsCell
    \/ RegrCell
    \/ SplitCell
    \/ FitScore
    \/ ImportTrainer
    \/ DatSplit
    \/ ModelFt
    \/ TrainCell
    \/ TrainStep
    \/ EpochEnd
    \/ Evaluate

Spec == Init /\ [][Next]_vars

\* the run top to bottom, with the extraction cell executed again at will
NextRerun == Next \/ ReExtract

SpecRerun == Init /\ [][NextRerun]_vars

-----------------------------------------------------------------------------
(* The claims *)

\* the Dataset objects the name dat holds
Datasets ==
    IF dat.type = "Dataset" THEN {dat}
    ELSE IF dat.type = "DatasetDict" THEN {dat.train, dat.test}
    ELSE {}

Has(ds, column) == column \in Range(ds.features)

\* the positions of ids that hold something else than [PAD]
NonPad(ids) == {i \in DOMAIN ids : ids[i] # PAD}

\* a cell is about to run; trainer.train(), once started, is all that
\* runs, and it leaves dat as it is
InCells == pc \in Range(Cells)

\* the cells before cell c have run and c has not
Before(c) == pc \in Range(SubSeq(Cells, 1, CellNo(c)))

\* C1: after the tokenization cell every row's input_ids has the tokenizer's
\* maximum context length, 512, whatever the number of word pieces of the
\* text: a text with fewer than 510 pieces is padded up to it (all its pieces
\* and the two special tokens are there, the rest is padding), a text with
\* more is cut down to it (no padding is left).
C1_FixedLength ==
    InCells => \A ds \in Datasets : Has(ds, "input_ids") =>
        /\ tokenizer.model_max_length = 512
        /\ \A i \in 1..NumRows(ds) :
              /\ Len(ds.cols.input_ids[i]) = tokenizer.model_max_length
              /\ Cardinality(NonPad(ds.cols.input_ids[i]))
                    = Min(ds.cols.text[i].len + 2, 512)

\* a tokenized dataset with a text shorter and a text longer than fits
C1_Witness ==
    /\ dat.type = "Dataset" /\ Has(dat, "input_ids")
    /\ \E i, j \in 1..NumRows(dat) :
          /\ dat.cols.text[i].len + 2 < 512
          /\ dat.cols.text[j].len + 2 > 512

\* C2: in every tokenized row attention_mask is as long as input_ids; with r
\* the number of real tokens of the row (the text's pieces that were kept,
\* [CLS] and [SEP]), attention_mask is 1 at the first r positions, which hold
\* the real tokens, and 0 at the others, which hold [PAD].
C2_MaskMarksRealTokens ==
    InCells => \A ds \in Datasets : Has(ds, "input_ids") =>
        /\ Has(ds, "attention_mask")
        /\ \A i \in 1..NumRows(ds) :
              LET ids  == ds.cols.input_ids[i]
                  mask == ds.cols.attention_mask[i]
                  r    == Min(ds.cols.text[i].len + 2, Len(ids))
              IN  /\ Len(mask) = Len(ids)
                  /\ \A p \in DOMAIN ids :
                        /\ mask[p] \in {0, 1}
                        /\ mask[p] = 1 <=> p <= r
                        /\ mask[p] = 1 <=> ids[p] # PAD
                  /\ ids[1] = CLS /\ ids[r] = SEP

\* a tokenized row with real tokens and padding
C2_Witness ==
    /\ dat.type = "Dataset" /\ Has(dat, "attention_mask")
    /\ \E i \in 1..NumRows(dat) :
          /\ dat.cols.text[i].len > 0
          /\ \E p, q \in DOMAIN dat.cols.attention_mask[i] :
                dat.cols.attention_mask[i][p] = 1 /\ dat.cols.attention_mask[i][q] = 0

\* C3: extract_features returns, for a batch of B rows, B vectors; after
\* dat.map(extract_features) the hidden_state column of a dataset of N rows
\* has N vectors of 768 numbers, the i-th being the base model's last hidden
\* state at position 0 for row i's input_ids and attention_mask, and the
\* shape displayed is (N, 768).
C3_OneClsVectorPerRow ==
    /\ (pc = "extract" /\ ExtractRuns(dat)) =>
          \A b \in 1..NumBatches(dat, batch_size) :
              LET batch == MapBatch(dat, b, batch_size)
              IN  Len(extract_features(batch).hidden_state)
                     = Len(batch.input_ids)
    /\ InCells => \A ds \in Datasets : Has(ds, "hidden_state") =>
          /\ Len(ds.cols.hidden_state) = Len(ds.cols.text)
          /\ \A i \in 1..NumRows(ds) :
                /\ ds.cols.hidden_state[i].dim = 768
                /\ ds.cols.hidden_state[i].pos = 0
                /\ ds.cols.hidden_state[i].of =
                      Digest(ds.cols.input_ids[i], ds.cols.attention_mask[i])
    /\ pc = "import_sklearn" => out.shape = <<Len(csv), 768>>

\* the features were extracted in several batches, the last one not full
C3_Witness ==
    /\ pc = "import_sklearn"
    /\ Has(dat, "hidden_state")
    /\ NumRows(dat) > batch_size /\ NumRows(dat) % batch_size # 0

\* C4: the feature-extraction cell leaves the model as it is, whatever the
\* number of batches (no weight changes), and every other value the kernel
\* holds too, but for dat, which gains the hidden_state column and keeps its
\* columns, and for the name extract_features, which the cell defines.
C4_ExtractionLeavesModelFrozen ==
    [][pc = "extract" =>
          /\ model' = model
          /\ UNCHANGED <<hw, csv, tokenizer, device, embeds, regr, split, trainer>>
          /\ bound' = bound \cup {"extract_features"}
          /\ pc' # "error" =>
                /\ dat'.features = Append(dat.features, "hidden_state")
                /\ \A k \in DOMAIN dat.cols : dat'.cols[k] = dat.cols[k]
                /\ dat'.indices = dat.indices
                /\ \A i \in 1..NumRows(dat') :
                      dat'.cols.hidden_state[i].weights = model.weights
      ]_vars

\* the features of more than one batch were extracted
C4_Witness ==
    /\ pc = "import_sklearn"
    /\ NumBatches(dat, batch_size) > 1
    /\ "extract_features" \in bound
    /\ model.weights = 0

\* C5: train_test_split parts the N rows of the embeddings into a train part
\* and a test part that share no row and together hold every row once;
\* regr.fit is given the train part only and the R2 displayed is that of
\* regr.score on the test part, none of whose rows was used for fitting.
C5_RidgeHoldout ==
    /\ split.type = "split" =>
          /\ Range(split.train_idx) \cap Range(split.test_idx) = {}
          /\ Range(split.train_idx) \cup Range(split.test_idx) = 1..Len(csv)
          /\ Len(split.train_idx) + Len(split.test_idx) = Len(csv)
          /\ Len(split.X_train) = Len(split.train_idx)
          /\ Len(split.X_test) = Len(split.test_idx)
    /\ (regr.type = "RidgeCV" /\ regr.fitted) =>
          Range(regr.fit_rows) = Range(split.train_idx)
    /\ pc = "import_trainer" =>
          /\ Range(out.r2.score_rows) = Range(split.test_idx)
          /\ Range(out.r2.score_rows) \cap Range(out.r2.fit_rows) = {}

\* the regression was fitted and scored, on parts of more than one row each
C5_Witness ==
    /\ pc = "import_trainer"
    /\ regr.fitted
    /\ Len(split.train_idx) > 1 /\ Len(split.test_idx) > 1

\* C6: dat.train_test_split(test_size=0.2, seed=42) parts the N rows into a
\* test part of ceil(0.2 * N) rows and a train part of the other rows (156
\* and 621 of 777), sharing no row and together holding every row once; the
\* trainer's steps train on rows of dat['train'] only and every evaluation
\* computes the metric on the rows of dat['test'], all of them, only.
C6_DatasetSplit ==
    /\ TestCount(777, 1, 5) = 156 /\ 777 - TestCount(777, 1, 5) = 621
    /\ dat.type = "DatasetDict" =>
          LET N  == Len(csv)
              tr == Range(dat.train.indices)
              te == Range(dat.test.indices)
          IN  /\ 5 * NumRows(dat.test) >= N /\ 5 * (NumRows(dat.test) - 1) < N
              /\ NumRows(dat.train) = N - NumRows(dat.test)
              /\ Cardinality(tr) = NumRows(dat.train)
              /\ Cardinality(te) = NumRows(dat.test)
              /\ tr \cap te = {} /\ tr \cup te = 1..N
              /\ \A i \in 1..NumRows(dat.train) :
                    dat.train.cols.labels[i] = csv[dat.train.indices[i]].labels
              /\ \A i \in 1..NumRows(dat.test) :
                    dat.test.cols.labels[i] = csv[dat.test.indices[i]].labels
              /\ trainer.type = "Trainer" =>
                    /\ trainer.state.trained \subseteq tr
                    /\ \A k \in DOMAIN trainer.state.evals :
                          trainer.state.evals[k].rows = te
                    /\ pc = "done" => trainer.state.trained = tr

\* the training has ended on a split with several test rows
C6_Witness ==
    /\ pc = "done"
    /\ dat.type = "DatasetDict"
    /\ NumRows(dat.test) > 2
    /\ Len(trainer.state.evals) > 0

\* C7: the device is 'cuda' whenever CUDA is available, 'mps' when it is not
\* and MPS is, 'cpu' when neither is; the model of the feature extraction,
\* the inputs extract_features moves and the model of the fine-tuning are
\* all put on that device.
C7_DevicePriority ==
    device.type # "unbound" =>
        /\ hw.cuda => device.type = "cuda"
        /\ (~hw.cuda /\ hw.mps) => device.type = "mps"
        /\ (~hw.cuda /\ ~hw.mps) => device.type = "cpu"
        /\ model.type # "unbound" => model.device = device.type
        /\ moved \subseteq {device.type}

\* both backends are available, and both models and the inputs were placed
C7_Witness ==
    /\ hw.cuda /\ hw.mps
    /\ moved # {}
    /\ model.type = "DistilBertForSequenceClassification"

\* C8: trainer.train() evaluates at the end of every epoch: 10 evaluations
\* in all, the k-th after k complete passes over the training data (each
\* over every training row) and before a step of the next pass, each calling
\* compute_metrics once, on the predictions for the whole test set.
C8_EvaluationEveryEpoch ==
    trainer.type = "Trainer" =>
        LET st  == trainer.state
            spe == StepsPerEpoch(trainer.args, Len(trainer.train_dataset))
        IN  /\ pc = "done" => Len(st.evals) = 10
            /\ pc = "train_step" => Len(st.evals) = st.epoch
            /\ st.metric_calls = Len(st.evals)
            /\ \A k \in DOMAIN st.evals :
                  /\ st.evals[k].epoch = k
                  /\ st.evals[k].global_step = k * spe
                  /\ st.evals[k].passed_over = Range(dat.train.indices)
                  /\ st.evals[k].rows = Range(dat.test.indices)
                  /\ Len(st.evals[k].metrics.r_squared.predictions)
                        = NumRows(dat.test)

\* the training has ended, each pass having taken several steps
C8_Witness ==
    /\ pc = "done"
    /\ trainer.state.epoch = 10
    /\ StepsPerEpoch(trainer.args, Len(trainer.train_dataset)) > 1

\* C9: over the 10 epochs the training metrics are logged once per epoch,
\* at each epoch's end.
C9_LoggedEveryEpoch ==
    (trainer.type = "Trainer" /\ pc = "done") =>
        LET st  == trainer.state
            spe == StepsPerEpoch(trainer.args, Len(trainer.train_dataset))
        IN  /\ Len(st.log_history) = 10
            /\ \A k \in DOMAIN st.log_history : st.log_history[k].step = k * spe

\* C10, as claimed: wherever dat is a Dataset, the keys of dat[i] are the
\* dataset's features.
C10_KeysAreFeatures ==
    dat.type = "Dataset" =>
        \A i \in 0..(NumRows(dat) - 1) :
            DOMAIN GetItem(dat, i) = Range(dat.features)

\* C10, amended: the keys of dat[i] are the dataset's features up to the
\* call of set_format; from then on they are the features but 'text', which
\* the features still list.
C10_KeysAreFormattedColumns ==
    dat.type = "Dataset" =>
        \A i \in 0..(NumRows(dat) - 1) :
            IF Before("set_format")
            THEN DOMAIN GetItem(dat, i) = Range(dat.features)
            ELSE /\ DOMAIN GetItem(dat, i) = Range(dat.features) \ {"text"}
                 /\ "text" \in Range(dat.features)
                 /\ "labels" \in DOMAIN GetItem(dat, i)

\* a sample of the dataset after set_format and the feature extraction
C10_Witness ==
    /\ dat.type = "Dataset"
    /\ ~dat.format.all
    /\ "hidden_state" \in DOMAIN GetItem(dat, 0)

\* the steps of the notebook in the order the description gives them
KeySteps ==
    <<"read_csv", "from_pandas", "tokenize", "device", "model", "extract",
      "fit_score", "dat_split", "model_ft", "train">>

\* the types dat goes through, in their order
DatTypes == <<"unbound", "DataFrame", "Dataset", "DatasetDict">>

TypeNo(t) == CHOOSE i \in DOMAIN DatTypes : DatTypes[i] = t

\* C11: run top to bottom from a fresh kernel, the cells follow one fixed
\* order (load the CSV, convert to a Dataset, tokenize, select the device,
\* load the base model, extract features, fit and score the ridge
\* regression, split the dataset, load the model with a regression head,
\* train), each step moves to the cell right below, every cell about to run
\* finds every name it reads bound by an earlier cell and dat of the type it
\* expects, and dat goes from DataFrame to Dataset to DatasetDict, never back.
C11_FixedOrderNamesBound ==
    /\ [](\A i, j \in DOMAIN KeySteps :
            i < j => CellNo(KeySteps[i]) < CellNo(KeySteps[j]))
    /\ [](InCells => CanRun(pc))
    /\ [][/\ (InCells /\ pc' \in Range(Cells))
             => CellNo(pc') = CellNo(pc) + 1
          /\ dat'.type \in Range(DatTypes)
          /\ TypeNo(dat'.type) >= TypeNo(dat.type)]_vars

\* the last cell is about to run: every cell above it has run, dat is the
\* DatasetDict of the two splits and model is the one with the head
C11_Witness ==
    /\ pc = "train"
    /\ dat.type = "DatasetDict"
    /\ "extract_features" \in bound
    /\ regr.fitted
    /\ model.type = "DistilBertForSequenceClassification"

\* C12: the tokens of every tokenized row start with [CLS]; with last the
\* position after the text's pieces that were kept, the token at last is
\* [SEP], no token up to last is [PAD] and every token after it is [PAD]; a
\* row whose text has more pieces than fit between the two special tokens
\* has last at the end of its 512 positions, so no [PAD] at all, [CLS]
\* first and [SEP] at the last position.
C12_ClsSepPad ==
    InCells => \A ds \in Datasets : Has(ds, "input_ids") =>
        \A i \in 1..NumRows(ds) :
            LET tokens == convert_ids_to_tokens(ds.cols.input_ids[i])
                last   == Min(ds.cols.text[i].len + 2, model_max_length)
            IN  /\ tokens[1] = "[CLS]"
                /\ tokens[last] = "[SEP]"
                /\ \A p \in DOMAIN tokens :
                      IF p > last THEN tokens[p] = "[PAD]"
                                  ELSE tokens[p] # "[PAD]"
                /\ ds.cols.text[i].len > model_max_length - 2 =>
                      /\ Len(tokens) = model_max_length
                      /\ last = Len(tokens)

\* a tokenized dataset with a text of more pieces than fit, one that fits
\* exactly and one that leaves room for padding
C12_Witness ==
    /\ dat.type = "Dataset" /\ Has(dat, "input_ids")
    /\ \E i, j, k \in 1..NumRows(dat) :
          /\ dat.cols.text[i].len > model_max_length - 2
          /\ dat.cols.input_ids[i][model_max_length] = SEP
          /\ dat.cols.text[j].len = model_max_length - 2
          /\ dat.cols.text[k].len < model_max_length - 2
          /\ dat.cols.input_ids[k][model_max_length] = PAD

\* C13: the batches extract_features receives hold the labels next to
\* input_ids and attention_mask; the inputs it builds from a batch and
\* passes to the model are the batch's input_ids and attention_mask, the
\* tokenizer's model input names, with the batch's values, and never the
\* labels; and each batch holds after the extraction, under every key it
\* had, the value it had.
C13_OnlyModelInputsPassed ==
    /\ [](passed # {} => /\ passed \subseteq tokenizer.model_input_names
                          /\ "labels" \notin passed)
    /\ [][(pc = "extract" /\ pc' # "error") =>
            /\ passed' = {"input_ids", "attention_mask"}
            /\ \A b \in 1..NumBatches(dat, batch_size) :
                  LET batch  == MapBatch(dat, b, batch_size)
                      inputs == extract_inputs(batch)
                      after  == MapBatch(dat', b, batch_size)
                  IN  /\ "labels" \in DOMAIN batch
                      /\ DOMAIN inputs = {"input_ids", "attention_mask"}
                      /\ DOMAIN inputs = tokenizer.model_input_names
                      /\ \A k \in DOMAIN inputs : inputs[k].data = batch[k]
                      /\ DOMAIN batch \subseteq DOMAIN after
                      /\ \A k \in DOMAIN batch : after[k] = batch[k]
         ]_vars

\* the features were extracted from batches that held the labels, a full
\* batch and a shorter last one among them
C13_Witness ==
    /\ pc = "import_sklearn"
    /\ passed = {"input_ids", "attention_mask"}
    /\ "labels" \in FormatColumns(dat)
    /\ "labels" \in DOMAIN MapBatch(dat, 1, batch_size)
    /\ NumRows(dat) > batch_size
    /\ NumRows(dat) % batch_size # 0

\* the kernel runs no cell: one can be executed by hand
Idle == pc \in Range(Cells) \cup {"done", "error"}

\* the cells from the one that loads the model with the head on have not run
BeforeFineTuning == pc = "error" \/ Before("model_ft")

\* C14: the name model holds the base model until the fine-tuning model
\* cell runs and the sequence-classification model from then on; run top to
\* bottom, the extraction cell calls extract_features while model is the
\* base model and the run goes on to the next cell; executed again once
\* model is the sequence-classification model, the cell ends in the
\* AttributeError for last_hidden_state, which nothing catches: no
\* embeddings are written, dat, model and the bound names are what they
\* were, and the error is what the cell shows.
C14_RerunAfterFineTuningFails ==
    /\ []("model" \in bound =>
            /\ BeforeFineTuning => model.type = "DistilBertModel"
            /\ ~BeforeFineTuning =>
                  model.type = "DistilBertForSequenceClassification")
    /\ [][/\ (pc = "extract" /\ pc' # pc) =>
                /\ model.type = "DistilBertModel"
                /\ pc' = NextCell(pc)
                /\ Has(dat', "hidden_state")
          /\ (Idle /\ pc' = pc /\ "model" \in bound
                /\ model.type = "DistilBertForSequenceClassification") =>
                /\ out' = [error |-> "AttributeError",
                           name  |-> "last_hidden_state"]
                /\ dat' = dat
                /\ model' = model
                /\ bound' = bound
         ]_vars

\* the extraction cell was executed again after the training and failed
C14_Witness ==
    /\ pc = "done"
    /\ model.type = "DistilBertForSequenceClassification"
    /\ dat.type = "DatasetDict"
    /\ out = [error |-> "AttributeError", name |-> "last_hidden_state"]

====
